---- MODULE Spec2Model ----
(***************************************************************************)
(* toysim-rs: a toy 8-bit CPU (src/src/cpu.rs), its 256-byte memory        *)
(* (src/src/memory.rs), the timer device (src/src/device.rs) and the       *)
(* two-pass assembler (src/src/assembler.rs).                              *)
(*                                                                         *)
(* Source text is modelled at token level: a source is a sequence of       *)
(* lines, a line is a record [kind, name, ops], an operand is a token      *)
(* [t, v, name].  Token kinds: "reg" (the text R<v>), "num" (decimal v),   *)
(* "hex" (0x<v>), "lab" (an identifier), "empty" (nothing between two      *)
(* commas).  Label names are identifiers, so the text of a reg/num/hex     *)
(* token is never a key of the label table.                                *)
(***************************************************************************)
EXTENDS Integers, Sequences, FiniteSets, TLC

\* ------------------------------------------------------------------ bounds
\* No instruction is started once the cycle counter has reached MaxCycles.
MaxCycles == 13
\* A behaviour makes at most MaxCalls calls of the CPU's public methods.
MaxCalls == 5
\* At most MaxDevices devices are attached.
MaxDevices == 2
\* step_n_instructions is called with n = 0, 1 or MaxN.
MaxN == 3
\* Sources built line by line have at most MaxLines lines.
MaxLines == 4

\* ------------------------------------------------------------- bit helpers
RECURSIVE BitAnd(_, _)
\* u8 `a & b`
BitAnd(a, b) ==
    IF a = 0 \/ b = 0 THEN 0
    ELSE (IF a % 2 = 1 /\ b % 2 = 1 THEN 1 ELSE 0) + 2 * BitAnd(a \div 2, b \div 2)

RECURSIVE BitOr(_, _)
\* u8 `a | b`
BitOr(a, b) ==
    IF a = 0 THEN b
    ELSE IF b = 0 THEN a
    ELSE (IF a % 2 = 1 \/ b % 2 = 1 THEN 1 ELSE 0) + 2 * BitOr(a \div 2, b \div 2)

\* ------------------------------------------------------------------ memory
\* Memory { mem: [u8; 256] }
MemSize == 256

Addrs == 0 .. (MemSize - 1)

\* Memory::new
MemoryNew == [a \in Addrs |-> 0]

\* Memory::read
MemRead(m, addr) == m[addr % MemSize]

\* Memory::write
MemWrite(m, addr, val) == [m EXCEPT ![addr % MemSize] = val]

RECURSIVE WriteFrom_Saturating(_, _, _, _)
\* the loop of write_bytes with the address stopping at the last byte
\* instead of wrapping to 0
WriteFrom_Saturating(m, a, bytes, i) ==
    IF i > Len(bytes) THEN m
    ELSE WriteFrom_Saturating([m EXCEPT ![a] = bytes[i]],
                              IF a + 1 < MemSize THEN a + 1 ELSE a, bytes, i + 1)

RECURSIVE WriteFrom(_, _, _, _)
\* the loop of Memory::write_bytes: a is already reduced modulo the size
WriteFrom(m, a, bytes, i) ==
    IF i > Len(bytes) THEN m
    ELSE WriteFrom([m EXCEPT ![a] = bytes[i]], (a + 1) % MemSize, bytes, i + 1)

\* Memory::write_bytes
MemWriteBytes(m, addr, bytes) == WriteFrom(m, addr % MemSize, bytes, 1)

\* --------------------------------------------------------------- assembler
Ok(v) == [ok |-> TRUE, v |-> v]
Err(msg) == [ok |-> FALSE, v |-> msg]

\* the lines of a source
Blank == [kind |-> "blank", name |-> "", ops |-> <<>>]
Label(n) == [kind |-> "label", name |-> n, ops |-> <<>>]
Org(ops) == [kind |-> "org", name |-> "ORG", ops |-> ops]
Ins(mn, ops) == [kind |-> "instr", name |-> mn, ops |-> ops]

\* the operand tokens
R(n) == [t |-> "reg", v |-> n, name |-> ""]
Num(n) == [t |-> "num", v |-> n, name |-> ""]
Hex(n) == [t |-> "hex", v |-> n, name |-> ""]
Lab(s) == [t |-> "lab", v |-> 0, name |-> s]
Empty == [t |-> "empty", v |-> 0, name |-> ""]

\* instruction_size
instruction_size(mnemonic) ==
    CASE mnemonic = "LDI" -> Ok(2)
      [] mnemonic = "ADD" -> Ok(2)
      [] mnemonic = "SUB" -> Ok(2)
      [] mnemonic = "LOAD" -> Ok(2)
      [] mnemonic = "STORE" -> Ok(2)
      [] mnemonic = "JMP" -> Ok(2)
      [] mnemonic = "JZ" -> Ok(2)
      [] mnemonic = "OUT" -> Ok(1)
      [] mnemonic = "HLT" -> Ok(1)
      [] mnemonic = "NOP" -> Ok(1)
      [] OTHER -> Err("unknown mnemonic")

\* parse_reg: R or r followed by a u8
parse_reg(tok) ==
    IF tok.t = "reg" /\ tok.v <= 255 THEN Ok(tok.v) ELSE Err("invalid register")

\* parse_number: 0x.. through u8::from_str_radix, decimal through u16 and a range check
parse_number(tok) ==
    CASE tok.t = "hex" -> IF tok.v <= 255 THEN Ok(tok.v) ELSE Err("invalid hex number")
      [] tok.t = "num" ->
            IF tok.v > 65535 THEN Err("invalid number")
            ELSE IF tok.v > 255 THEN Err("number out of range")
            ELSE Ok(tok.v)
      [] OTHER -> Err("invalid number")

\* parse_addr_operand: a label of the table, else a number
parse_addr_operand(tok, labels) ==
    IF tok.t = "empty" THEN Err("expected address or label")
    ELSE IF tok.t = "lab" /\ tok.name \in DOMAIN labels THEN Ok(labels[tok.name] % 256)
    ELSE parse_number(tok)

\* ops.split(',').map(trim).filter(non-empty)
Parts(ops) == SelectSeq(ops, LAMBDA tok : tok.t # "empty")

RECURSIVE TrimStartCommas(_)
\* split_mnemonic_operands: rest.trim().trim_start_matches(',')
TrimStartCommas(ops) ==
    IF Len(ops) >= 2 /\ ops[1].t = "empty" THEN TrimStartCommas(Tail(ops)) ELSE ops

\* the operand string of OUT and JMP, parsed as one token: a string that still
\* holds a comma is neither a register, nor a label, nor a number
Whole(ops) ==
    LET s == TrimStartCommas(ops)
    IN  IF Len(s) = 0 THEN Empty
        ELSE IF Len(s) = 1 THEN s[1]
        ELSE [t |-> "junk", v |-> 0, name |-> ""]

\* parse_two_operands_reg_imm
parse_two_operands_reg_imm(ops) ==
    LET parts == Parts(ops)
    IN  IF Len(parts) # 2 THEN Err("expected two operands")
        ELSE LET r == parse_reg(parts[1])
                 imm == parse_number(parts[2])
             IN  IF ~r.ok THEN r ELSE IF ~imm.ok THEN imm ELSE Ok(<<r.v, imm.v>>)

\* parse_two_operands_reg_reg
parse_two_operands_reg_reg(ops) ==
    LET parts == Parts(ops)
    IN  IF Len(parts) # 2 THEN Err("expected two operands")
        ELSE LET a == parse_reg(parts[1])
                 b == parse_reg(parts[2])
             IN  IF ~a.ok THEN a ELSE IF ~b.ok THEN b ELSE Ok(<<a.v, b.v>>)

\* parse_two_operands_reg_addr
parse_two_operands_reg_addr(ops, labels) ==
    LET parts == Parts(ops)
    IN  IF Len(parts) # 2 THEN Err("expected two operands")
        ELSE LET r == parse_reg(parts[1])
                 addr == parse_addr_operand(parts[2], labels)
             IN  IF ~r.ok THEN r ELSE IF ~addr.ok THEN addr ELSE Ok(<<r.v, addr.v>>)

\* the result of assemble: Ok(bytes), or Err with the reported line number
AsmOk(bytes) == [ok |-> TRUE, bytes |-> bytes, line |-> 0, msg |-> ""]
AsmErr(line, msg) == [ok |-> FALSE, bytes |-> <<>>, line |-> line, msg |-> msg]

\* the state carried through pass 1
Pass1Start == [ok |-> TRUE, labels |-> <<>>, lines |-> <<>>, pc |-> 0, line |-> 0, msg |-> ""]

RECURSIVE Pass1_OrgIgnored(_, _, _)
\* pass 1 with an ORG line checked but the program counter left as it was
Pass1_OrgIgnored(src, i, st) ==
    IF i > Len(src) THEN st
    ELSE
      LET ln == src[i]
          fail(msg) == [st EXCEPT !.ok = FALSE, !.line = i, !.msg = msg]
      IN  CASE ln.kind = "blank" -> Pass1_OrgIgnored(src, i + 1, st)
            [] ln.kind = "label" ->
                  IF ln.name = "" THEN fail("empty label")
                  ELSE IF ln.name \in DOMAIN st.labels THEN fail("duplicate label")
                  ELSE Pass1_OrgIgnored(src, i + 1,
                           [st EXCEPT !.labels = (ln.name :> st.pc) @@ st.labels])
            [] ln.kind = "org" ->
                  IF Len(ln.ops) < 1 THEN fail("ORG without address")
                  ELSE LET addr == parse_number(ln.ops[1])
                       IN  IF ~addr.ok THEN fail(addr.v)
                           ELSE Pass1_OrgIgnored(src, i + 1, st)
            [] OTHER ->
                  LET size == instruction_size(ln.name)
                  IN  IF ~size.ok THEN fail("unknown mnemonic")
                      ELSE Pass1_OrgIgnored(src, i + 1,
                               [st EXCEPT !.lines = Append(st.lines, ln),
                                          !.pc = st.pc + size.v])

RECURSIVE Pass1(_, _, _)
\* assemble, first loop: lineno is the 0-based index of the source line
Pass1(src, i, st) ==
    IF i > Len(src) THEN st
    ELSE
      LET ln == src[i]
          fail(msg) == [st EXCEPT !.ok = FALSE, !.line = i, !.msg = msg]
      IN  CASE ln.kind = "blank" -> Pass1(src, i + 1, st)
            [] ln.kind = "label" ->
                  IF ln.name = "" THEN fail("empty label")
                  ELSE IF ln.name \in DOMAIN st.labels THEN fail("duplicate label")
                  ELSE Pass1(src, i + 1, [st EXCEPT !.labels = (ln.name :> st.pc) @@ st.labels])
            [] ln.kind = "org" ->
                  IF Len(ln.ops) < 1 THEN fail("ORG without address")
                  ELSE LET addr == parse_number(ln.ops[1])
                       IN  IF ~addr.ok THEN fail(addr.v)
                           ELSE Pass1(src, i + 1, [st EXCEPT !.pc = addr.v])
            [] OTHER ->
                  LET size == instruction_size(ln.name)
                  IN  IF ~size.ok THEN fail("unknown mnemonic")
                      ELSE Pass1(src, i + 1,
                                 [st EXCEPT !.lines = Append(st.lines, ln),
                                            !.pc = st.pc + size.v])

\* assemble, one arm of the second loop's match: Ok(bytes of the line) or Err
Encode(ln, labels) ==
    LET mn == ln.name
        ops == ln.ops
    IN  CASE mn = "LDI" ->
              LET p == parse_two_operands_reg_imm(ops)
              IN  IF ~p.ok THEN p
                  ELSE IF p.v[1] > 3 THEN Err("invalid register")
                  ELSE Ok(<<BitOr(16, p.v[1]), p.v[2]>>)
          [] mn = "ADD" ->
              LET p == parse_two_operands_reg_reg(ops)
              IN  IF ~p.ok THEN p
                  ELSE IF p.v[1] > 3 \/ p.v[2] > 3 THEN Err("invalid register")
                  ELSE Ok(<<BitOr(32, p.v[1]), p.v[2]>>)
          [] mn = "SUB" ->
              LET p == parse_two_operands_reg_reg(ops)
              IN  IF ~p.ok THEN p
                  ELSE IF p.v[1] > 3 \/ p.v[2] > 3 THEN Err("invalid register")
                  ELSE Ok(<<BitOr(33, p.v[1]), p.v[2]>>)
          [] mn = "LOAD" ->
              LET p == parse_two_operands_reg_addr(ops, labels)
              IN  IF ~p.ok THEN p
                  ELSE IF p.v[1] > 3 THEN Err("invalid register")
                  ELSE Ok(<<BitOr(48, p.v[1]), p.v[2]>>)
          [] mn = "STORE" ->
              LET p == parse_two_operands_reg_addr(ops, labels)
              IN  IF ~p.ok THEN p
                  ELSE IF p.v[1] > 3 THEN Err("invalid register")
                  ELSE Ok(<<BitOr(49, p.v[1]), p.v[2]>>)
          [] mn = "JMP" ->
              LET a == parse_addr_operand(Whole(ops), labels)
              IN  IF ~a.ok THEN a ELSE Ok(<<64, a.v>>)
          [] mn = "JZ" ->
              LET p == parse_two_operands_reg_addr(ops, labels)
              IN  IF ~p.ok THEN p
                  ELSE IF p.v[1] > 3 THEN Err("invalid register")
                  ELSE Ok(<<BitOr(65, p.v[1]), p.v[2]>>)
          [] mn = "OUT" ->
              LET r == parse_reg(Whole(ops))
              IN  IF ~r.ok THEN r
                  ELSE IF r.v > 3 THEN Err("invalid register")
                  ELSE Ok(<<BitOr(80, r.v)>>)
          [] mn = "HLT" -> Ok(<<255>>)
          [] mn = "NOP" -> Ok(<<0>>)
          [] OTHER -> Err("unknown mnemonic")

RECURSIVE Pass2(_, _, _, _)
\* assemble, second loop: lineno is the 0-based index in the retained lines
Pass2(lines, labels, i, out) ==
    IF i > Len(lines) THEN AsmOk(out)
    ELSE LET e == Encode(lines[i], labels)
         IN  IF ~e.ok THEN AsmErr(i, e.v)
             ELSE Pass2(lines, labels, i + 1, out \o e.v)

\* assemble
assemble(src) ==
    LET p1 == Pass1(src, 1, Pass1Start)
    IN  IF ~p1.ok THEN AsmErr(p1.line, p1.msg)
        ELSE Pass2(p1.lines, p1.labels, 1, <<>>)

\* ------------------------------------------------------------------ device
\* TimerDevice::new; fired lists the cycles at which the timer printed
TimerDeviceNew(period) == [period |-> period, next |-> period, fired |-> <<>>]

\* TimerDevice::tick with `current_cycle > self.next`
TimerTick_Strict(d, current_cycle) ==
    IF current_cycle > d.next
    THEN [d EXCEPT !.fired = Append(@, current_cycle), !.next = @ + d.period]
    ELSE d

\* TimerDevice::tick
TimerTick(d, current_cycle) ==
    IF current_cycle >= d.next
    THEN [d EXCEPT !.fired = Append(@, current_cycle), !.next = @ + d.period]
    ELSE d

\* --------------------------------------------------------------------- CPU
\* A CPU value c is the struct CPU {regs, pc, z, mem, cycles, halted, devices},
\* with the console (out: the values printed by OUT) and three history fields:
\* nexec (instructions executed so far), lastop (opcode of the latest one) and
\* notif (every Device::tick call so far, as <<device index, cycle>>).

\* CPU::new
CPUNew ==
    [regs |-> [i \in 0 .. 3 |-> 0], pc |-> 0, z |-> FALSE, mem |-> MemoryNew,
     cycles |-> 0, halted |-> FALSE, devices |-> <<>>,
     out |-> <<>>, nexec |-> 0, lastop |-> -1, notif |-> <<>>]

\* CPU::attach_device
attach_device(c, dev) == [c EXCEPT !.devices = Append(@, dev)]

\* load that also clears the halted flag
load_ClearsHalted(c, program, addr) ==
    [c EXCEPT !.mem = MemWriteBytes(@, addr, program), !.pc = addr, !.halted = FALSE]

\* CPU::load: pc is set to addr as given
load(c, program, addr) ==
    [c EXCEPT !.mem = MemWriteBytes(@, addr, program), !.pc = addr]

\* CPU::fetch
fetch(c) ==
    [b |-> MemRead(c.mem, c.pc), c |-> [c EXCEPT !.pc = (c.pc + 1) % MemSize]]

\* the match of CPU::step_instruction, arms tried in source order
Execute(c, op) ==
    LET reg == BitAnd(op, 3)
        f == fetch(c)
        hi == BitAnd(op, 240)
    IN  IF hi = 16 THEN
            [c |-> [f.c EXCEPT !.regs[reg] = f.b, !.z = (f.b = 0)], cycles |-> 2]
        ELSE IF hi = 32 THEN
            LET src == BitAnd(f.b, 3)
                res == (c.regs[reg] + c.regs[src]) % 256
            IN  [c |-> [f.c EXCEPT !.regs[reg] = res, !.z = (res = 0)], cycles |-> 3]
        ELSE IF hi = 33 THEN
            LET src == BitAnd(f.b, 3)
                res == (c.regs[reg] - c.regs[src] + 256) % 256
            IN  [c |-> [f.c EXCEPT !.regs[reg] = res, !.z = (res = 0)], cycles |-> 3]
        ELSE IF hi = 48 THEN
            LET v == MemRead(c.mem, f.b)
            IN  [c |-> [f.c EXCEPT !.regs[reg] = v, !.z = (v = 0)], cycles |-> 4]
        ELSE IF hi = 49 THEN
            [c |-> [f.c EXCEPT !.mem = MemWrite(@, f.b, c.regs[reg])], cycles |-> 4]
        ELSE IF op = 64 THEN
            [c |-> [f.c EXCEPT !.pc = f.b % MemSize], cycles |-> 3]
        ELSE IF hi = 65 THEN
            [c |-> IF c.regs[reg] = 0 THEN [f.c EXCEPT !.pc = f.b % MemSize] ELSE f.c,
             cycles |-> 3]
        ELSE IF hi = 80 THEN
            [c |-> [c EXCEPT !.out = Append(@, c.regs[reg])], cycles |-> 4]
        ELSE IF op = 255 THEN
            [c |-> [c EXCEPT !.halted = TRUE], cycles |-> 1]
        ELSE [c |-> c, cycles |-> 1]

\* the accesses of one step with the ADD/SUB source operand used as it is
\* fetched, without `& 0x03`
StepAccesses_SrcUnmasked(c) ==
    LET i1 == c.pc % MemSize
        op == c.mem[i1]
        i2 == ((c.pc + 1) % MemSize) % MemSize
        b == c.mem[i2]
        reg == BitAnd(op, 3)
        hi == BitAnd(op, 240)
    IN  IF hi = 16 THEN [regs |-> {reg}, addrs |-> {i1, i2}]
        ELSE IF hi \in {32, 33} THEN [regs |-> {reg, b}, addrs |-> {i1, i2}]
        ELSE IF hi \in {48, 49} THEN [regs |-> {reg}, addrs |-> {i1, i2, b % MemSize}]
        ELSE IF op = 64 THEN [regs |-> {}, addrs |-> {i1, i2}]
        ELSE IF hi = 65 THEN [regs |-> {reg}, addrs |-> {i1, i2}]
        ELSE IF hi = 80 THEN [regs |-> {reg}, addrs |-> {i1}]
        ELSE [regs |-> {}, addrs |-> {i1}]

\* the indices one call of step_instruction on a CPU that is not halted uses:
\* regs are the indices into self.regs, addrs the indices into the array of
\* Memory (fetch reads at pc % size, then at the incremented pc; LOAD and STORE
\* at the operand byte % size)
StepAccesses(c) ==
    LET i1 == c.pc % MemSize
        op == c.mem[i1]
        i2 == ((c.pc + 1) % MemSize) % MemSize
        b == c.mem[i2]
        reg == BitAnd(op, 3)
        hi == BitAnd(op, 240)
    IN  IF hi = 16 THEN [regs |-> {reg}, addrs |-> {i1, i2}]
        ELSE IF hi \in {32, 33} THEN [regs |-> {reg, BitAnd(b, 3)}, addrs |-> {i1, i2}]
        ELSE IF hi \in {48, 49} THEN [regs |-> {reg}, addrs |-> {i1, i2, b % MemSize}]
        ELSE IF op = 64 THEN [regs |-> {}, addrs |-> {i1, i2}]
        ELSE IF hi = 65 THEN [regs |-> {reg}, addrs |-> {i1, i2}]
        ELSE IF hi = 80 THEN [regs |-> {reg}, addrs |-> {i1}]
        ELSE [regs |-> {}, addrs |-> {i1}]

\* step_instruction without its `if self.halted { return 0; }`
step_instruction_NoHaltedCheck(c) ==
    LET f == fetch(c)
    IN  Execute([f.c EXCEPT !.nexec = @ + 1, !.lastop = f.b], f.b)

\* step_instruction with the default arm of the match setting halted
step_instruction_UnknownHalts(c) ==
    IF c.halted THEN [c |-> c, cycles |-> 0]
    ELSE LET f == fetch(c)
             r == Execute([f.c EXCEPT !.nexec = @ + 1, !.lastop = f.b], f.b)
         IN  IF BitAnd(f.b, 240) \in {16, 32, 48, 80} \/ f.b \in {64, 255} THEN r
             ELSE [c |-> [r.c EXCEPT !.halted = TRUE], cycles |-> r.cycles]

\* step_instruction with the LOAD arm returning 3
step_instruction_LoadCostsThree(c) ==
    IF c.halted THEN [c |-> c, cycles |-> 0]
    ELSE LET f == fetch(c)
             r == Execute([f.c EXCEPT !.nexec = @ + 1, !.lastop = f.b], f.b)
         IN  IF BitAnd(f.b, 240) = 48 THEN [c |-> r.c, cycles |-> 3] ELSE r

\* CPU::step_instruction
step_instruction(c) ==
    IF c.halted THEN [c |-> c, cycles |-> 0]
    ELSE LET f == fetch(c)
         IN  Execute([f.c EXCEPT !.nexec = @ + 1, !.lastop = f.b], f.b)

\* the tick loop with the devices ticked before the counter is incremented
TickOnce_Stale(c) ==
    [c EXCEPT !.cycles = c.cycles + 1,
              !.devices = [i \in DOMAIN c.devices |-> TimerTick(c.devices[i], c.cycles)],
              !.notif = @ \o [i \in DOMAIN c.devices |-> <<i, c.cycles>>]]

\* one round of the tick loop: the counter goes up by one, then every device
\* is ticked in the order of the devices vector
TickOnce(c) ==
    LET now == c.cycles + 1
    IN  [c EXCEPT !.cycles = now,
                  !.devices = [i \in DOMAIN c.devices |-> TimerTick(c.devices[i], now)],
                  !.notif = @ \o [i \in DOMAIN c.devices |-> <<i, now>>]]

RECURSIVE Ticks(_, _)
\* `for _ in 0..cycles { ... }`
Ticks(c, n) == IF n = 0 THEN c ELSE Ticks(TickOnce(c), n - 1)

\* CPU::step_and_tick_instruction
step_and_tick_instruction(c) ==
    IF c.halted THEN [c |-> c, cycles |-> 0]
    ELSE LET s == step_instruction(c)
         IN  [c |-> Ticks(s.c, s.cycles), cycles |-> s.cycles]

RECURSIVE StepNLoop(_, _, _, _)
\* the loop of CPU::step_n_instructions, k iterations left
StepNLoop(c, k, executed, cycles_consumed) ==
    IF k = 0 \/ c.halted
    THEN [c |-> c, executed |-> executed, cycles |-> cycles_consumed]
    ELSE LET s == step_and_tick_instruction(c)
         IN  StepNLoop(s.c, k - 1, executed + 1, cycles_consumed + s.cycles)

\* step_n_instructions reporting n instead of the instructions executed
step_n_instructions_ReportsN(c, n) == [StepNLoop(c, n, 0, 0) EXCEPT !.executed = n]

\* CPU::step_n_instructions
step_n_instructions(c, n) == StepNLoop(c, n, 0, 0)

\* the loop body of run with `for _ in 1..cycles`: one tick short
RunBody_OneTickShort(c) ==
    LET s == step_instruction(c)
    IN  [c |-> Ticks(s.c, IF s.cycles > 0 THEN s.cycles - 1 ELSE 0), cycles |-> s.cycles]

\* the body of the loop of CPU::run
RunBody(c) ==
    LET s == step_instruction(c)
    IN  [c |-> Ticks(s.c, s.cycles), cycles |-> s.cycles]

\* ----------------------------------------------------------- state machine
VARIABLES
    regs, pc, z, mem, cycles, halted, devices,  \* the fields of struct CPU
    out,         \* the console: values printed by OUT
    nexec,       \* history: instructions executed since construction
    lastop,      \* history: opcode of the latest executed instruction, -1 if none
    notif,       \* history: the Device::tick calls, <<device index, cycle>>
    attachedAt,  \* history: the cycle counter when each device was attached
    ctl,         \* "idle", or "run" while CPU::run is looping
    ret,         \* the latest call: its name, argument, result and the CPU before it
    job,         \* the latest load: source, assembler result, bytes, address
    ncalls       \* number of calls made so far

cpuvars == <<regs, pc, z, mem, cycles, halted, devices, out, nexec, lastop, notif>>

vars == <<regs, pc, z, mem, cycles, halted, devices, out, nexec, lastop, notif,
          attachedAt, ctl, ret, job, ncalls>>

\* the CPU value held by the variables
Cpu ==
    [regs |-> regs, pc |-> pc, z |-> z, mem |-> mem, cycles |-> cycles,
     halted |-> halted, devices |-> devices,
     out |-> out, nexec |-> nexec, lastop |-> lastop, notif |-> notif]

IsCpu(c) ==
    /\ regs = c.regs /\ pc = c.pc /\ z = c.z /\ mem = c.mem /\ cycles = c.cycles
    /\ halted = c.halted /\ devices = c.devices
    /\ out = c.out /\ nexec = c.nexec /\ lastop = c.lastop /\ notif = c.notif

SetCpu(c) ==
    /\ regs' = c.regs /\ pc' = c.pc /\ z' = c.z /\ mem' = c.mem /\ cycles' = c.cycles
    /\ halted' = c.halted /\ devices' = c.devices
    /\ out' = c.out /\ nexec' = c.nexec /\ lastop' = c.lastop /\ notif' = c.notif

Ret(op, n, executed, cyc, pre) ==
    [op |-> op, n |-> n, executed |-> executed, cycles |-> cyc, pre |-> pre]

NoJob ==
    [kind |-> "none", src |-> <<>>, asm |-> AsmOk(<<>>), bytes |-> <<>>, addr |-> 0,
     nexec0 |-> 0]

\* ---- inputs
\* periods of the timers attached (main.rs attaches TimerDevice::new(5))
Periods == {5}

\* load addresses: the start of memory, and two bytes before its end
LoadAddrs == {0, 254}

\* the arguments of step_n_instructions
StepCounts == {0, 1, MaxN}

\* the program of cpu.rs tests::test_add_and_cycles and of main.rs
TestProgram == <<16, 5, 17, 10, 32, 1, 80, 255>>

\* the source of assembler.rs tests::assemble_basic_program
ExampleSrc ==
    << Blank, Label("start"),
       Ins("LDI", <<R(0), Num(5)>>), Ins("LDI", <<R(1), Num(10)>>),
       Ins("ADD", <<R(0), R(1)>>), Ins("OUT", <<R(0)>>), Ins("HLT", <<>>) >>

\* load-immediate, then halt
LdiHltSrc == << Ins("LDI", <<R(2), Num(7)>>), Ins("HLT", <<>>) >>

\* a jump to its own address (at load address 0): never halts
SpinSrc == << Label("spin"), Ins("JMP", <<Lab("spin")>>) >>

\* load-immediate, output, halt: 2 + 4 + 1 cycles
OutHltSrc == << Ins("LDI", <<R(0), Num(0)>>), Ins("OUT", <<R(0)>>), Ins("HLT", <<>>) >>

Sources == {ExampleSrc, LdiHltSrc, SpinSrc, OutHltSrc}

RawPrograms == {TestProgram}

\* ---- actions
\* CPU::attach_device(Box::new(TimerDevice::new(period)))
AttachDevice(period) ==
    /\ ctl = "idle"
    /\ ncalls < MaxCalls
    /\ Len(devices) < MaxDevices
    /\ SetCpu(attach_device(Cpu, TimerDeviceNew(period)))
    /\ attachedAt' = Append(attachedAt, cycles)
    /\ ret' = Ret("attach", period, 0, 0, Cpu)
    /\ ncalls' = ncalls + 1
    /\ UNCHANGED <<ctl, job>>

\* assemble a source and, when it is accepted, load the bytes (the REPL's asm
\* command loads at 0; other callers of CPU::load choose the address)
AsmLoad(src, addr) ==
    /\ ctl = "idle"
    /\ ncalls < MaxCalls
    /\ LET r == assemble(src)
       IN  /\ job' = [kind |-> "asm", src |-> src, asm |-> r, bytes |-> r.bytes,
                      addr |-> addr, nexec0 |-> nexec]
           /\ IF r.ok THEN SetCpu(load(Cpu, r.bytes, addr)) ELSE UNCHANGED cpuvars
    /\ ret' = Ret("load", addr, 0, 0, Cpu)
    /\ ncalls' = ncalls + 1
    /\ UNCHANGED <<ctl, attachedAt>>

\* CPU::load of a byte program written by hand (main.rs, cpu.rs tests)
LoadBytes(program, addr) ==
    /\ ctl = "idle"
    /\ ncalls < MaxCalls
    /\ job' = [kind |-> "raw", src |-> <<>>, asm |-> AsmOk(program), bytes |-> program,
               addr |-> addr, nexec0 |-> nexec]
    /\ SetCpu(load(Cpu, program, addr))
    /\ ret' = Ret("load", addr, 0, 0, Cpu)
    /\ ncalls' = ncalls + 1
    /\ UNCHANGED <<ctl, attachedAt>>

\* a call of CPU::step_instruction
StepInstruction ==
    /\ ctl = "idle"
    /\ ncalls < MaxCalls
    /\ halted \/ cycles < MaxCycles
    /\ LET s == step_instruction(Cpu)
       IN  /\ SetCpu(s.c)
           /\ ret' = Ret("step_instruction", 1, 0, s.cycles, Cpu)
    /\ ncalls' = ncalls + 1
    /\ UNCHANGED <<ctl, job, attachedAt>>

\* a call of CPU::step_and_tick_instruction
StepAndTick ==
    /\ ctl = "idle"
    /\ ncalls < MaxCalls
    /\ halted \/ cycles < MaxCycles
    /\ LET s == step_and_tick_instruction(Cpu)
       IN  /\ SetCpu(s.c)
           /\ ret' = Ret("step_and_tick_instruction", 1, 0, s.cycles, Cpu)
    /\ ncalls' = ncalls + 1
    /\ UNCHANGED <<ctl, job, attachedAt>>

\* a call of CPU::step_n_instructions(n) (the REPL's step command)
StepN(n) ==
    /\ ctl = "idle"
    /\ ncalls < MaxCalls
    /\ halted \/ cycles < MaxCycles
    /\ LET s == step_n_instructions(Cpu, n)
       IN  /\ SetCpu(s.c)
           /\ ret' = Ret("step_n_instructions", n, s.executed, s.cycles, Cpu)
    /\ ncalls' = ncalls + 1
    /\ UNCHANGED <<ctl, job, attachedAt>>

\* CPU::run is entered (the REPL's run command, main.rs)
RunCall ==
    /\ ctl = "idle"
    /\ ncalls < MaxCalls
    /\ ctl' = "run"
    /\ ret' = Ret("run", 0, 0, 0, Cpu)
    /\ ncalls' = ncalls + 1
    /\ UNCHANGED <<cpuvars, job, attachedAt>>

\* one iteration of `while !self.halted`; ret sums the costs of the instructions
RunIter ==
    /\ ctl = "run"
    /\ ~halted
    /\ cycles < MaxCycles
    /\ LET s == RunBody(Cpu)
       IN  /\ SetCpu(s.c)
           /\ ret' = [ret EXCEPT !.executed = @ + 1, !.cycles = @ + s.cycles]
    /\ UNCHANGED <<ctl, job, ncalls, attachedAt>>

\* run returning whether or not the CPU is halted
RunReturn_Unconditional ==
    /\ ctl = "run"
    /\ ctl' = "idle"
    /\ ret' = [ret EXCEPT !.op = "run_returned"]
    /\ UNCHANGED <<cpuvars, job, ncalls, attachedAt>>

\* the loop of CPU::run ends and run returns
RunReturn ==
    /\ ctl = "run"
    /\ halted
    /\ ctl' = "idle"
    /\ ret' = [ret EXCEPT !.op = "run_returned"]
    /\ UNCHANGED <<cpuvars, job, ncalls, attachedAt>>

\* ---- the machine from construction
Init ==
    /\ IsCpu(CPUNew)
    /\ attachedAt = <<>>
    /\ ctl = "idle"
    /\ ret = Ret("new", 0, 0, 0, CPUNew)
    /\ job = NoJob
    /\ ncalls = 0

Next ==
    \/ \E period \in Periods : AttachDevice(period)
    \/ \E src \in Sources : AsmLoad(src, 0)
    \/ \E program \in RawPrograms : LoadBytes(program, 0)
    \/ StepInstruction
    \/ StepAndTick
    \/ \E n \in StepCounts : StepN(n)
    \/ RunCall
    \/ RunIter
    \/ RunReturn

Spec == Init /\ [][Next]_vars

\* ---- one assembled instruction, stepped from any register/flag/memory state
\* register and memory values the machine starts with
RegVals == {0, 1, 255}

\* immediates and addresses written in the sources
ImmVals == {0, 5, 255}

AddrVals == {0, 1, 16, 255}

\* a memory in which every byte differs from its neighbours
PatternMem == [a \in Addrs |-> (a * 7 + 3) % 256]

\* every instruction with registers in 0..3, as a one-line source
InstrSources ==
    {<<Ins("LDI", <<R(r), Num(v)>>)>> : r \in 0 .. 3, v \in ImmVals}
    \cup {<<Ins(mn, <<R(d), R(s)>>)>> : mn \in {"ADD", "SUB"}, d \in 0 .. 3, s \in 0 .. 3}
    \cup {<<Ins(mn, <<R(r), Num(a)>>)>> : mn \in {"LOAD", "STORE", "JZ"}, r \in 0 .. 3, a \in AddrVals}
    \cup {<<Ins("JMP", <<Num(a)>>)>> : a \in AddrVals}
    \cup {<<Ins("OUT", <<R(r)>>)>> : r \in 0 .. 3}
    \cup {<<Ins("HLT", <<>>)>>, <<Ins("NOP", <<>>)>>}

InitISA ==
    /\ regs \in [0 .. 3 -> RegVals]
    /\ z \in BOOLEAN
    /\ mem \in {MemoryNew, PatternMem}
    /\ pc = 0 /\ cycles = 0 /\ halted = FALSE /\ devices = <<>>
    /\ out = <<>> /\ nexec = 0 /\ lastop = -1 /\ notif = <<>>
    /\ attachedAt = <<>>
    /\ ctl = "idle"
    /\ ret = Ret("new", 0, 0, 0, Cpu)
    /\ job = NoJob
    /\ ncalls = 0

\* one load, then one step (further steps once halted)
NextISA ==
    \/ \E src \in InstrSources \cup {ExampleSrc}, addr \in LoadAddrs :
          job.kind = "none" /\ AsmLoad(src, addr)
    \/ job.kind # "none" /\ (halted \/ nexec = job.nexec0) /\ StepInstruction
    \/ job.kind # "none" /\ (halted \/ nexec = job.nexec0) /\ StepAndTick

SpecISA == InitISA /\ [][NextISA]_vars

\* ---- the assembler on sources built line by line
\* sequences over S of length 0..n
SeqsUpTo(S, n) == UNION {[1 .. k -> S] : k \in 0 .. n}

\* lines for layout: blank, label, ORG (one of them at the last byte), good
\* instructions, label references, a register out of range, a literal out of range
LayoutLines ==
    { Blank, Label("loop"), Label("end"), Org(<<Hex(16)>>), Org(<<Num(255)>>),
      Ins("LDI", <<R(0), Num(1)>>), Ins("NOP", <<>>),
      Ins("JMP", <<Lab("loop")>>), Ins("JMP", <<Lab("end")>>),
      Ins("LDI", <<R(4), Num(1)>>), Ins("LDI", <<R(0), Num(300)>>) }

LayoutSources == SeqsUpTo(LayoutLines, MaxLines)

\* the source of assembler.rs tests::assemble_labels_and_jmp
OrgLoopSrc ==
    << Org(<<Hex(16)>>), Label("loop"), Ins("LDI", <<R(0), Num(1)>>),
       Ins("JMP", <<Lab("loop")>>) >>

Mnemonics == {"LDI", "ADD", "SUB", "LOAD", "STORE", "JMP", "JZ", "OUT", "HLT", "NOP"}

\* one line per mnemonic and operand list of 0..3 parts, a part being a
\* register, a number or nothing
ShapeSources ==
    {<<Ins(mn, ops)>> : mn \in Mnemonics, ops \in SeqsUpTo({R(0), Num(5), Empty}, 3)}

\* one well-formed line per mnemonic and register
OpLines ==
    {Ins("LDI", <<R(r), Num(5)>>) : r \in 0 .. 3}
    \cup {Ins(mn, <<R(r), R(0)>>) : mn \in {"ADD", "SUB"}, r \in 0 .. 3}
    \cup {Ins(mn, <<R(r), Num(16)>>) : mn \in {"LOAD", "STORE", "JZ"}, r \in 0 .. 3}
    \cup {Ins("OUT", <<R(r)>>) : r \in 0 .. 3}
    \cup {Ins("JMP", <<Num(16)>>), Ins("HLT", <<>>), Ins("NOP", <<>>)}

\* two instructions in one source
PairSources == {<<a, b>> : a \in OpLines, b \in OpLines}

AsmSources == LayoutSources \cup ShapeSources \cup PairSources

\* the REPL's asm command on a fresh CPU
NextAsm == job.kind = "none" /\ \E src \in AsmSources : AsmLoad(src, 0)

SpecAsm == Init /\ [][NextAsm]_vars

\* ---- the CPU and its memory on raw bytes
\* a call of Memory::write on the CPU's memory
MemWriteCall(addr, val) ==
    /\ ctl = "idle"
    /\ ncalls < MaxCalls
    /\ SetCpu([Cpu EXCEPT !.mem = MemWrite(@, addr, val)])
    /\ ret' = [val |-> val] @@ Ret("write", addr, 0, 0, Cpu)
    /\ ncalls' = ncalls + 1
    /\ UNCHANGED <<ctl, job, attachedAt>>

\* the REPL's mem command: len calls of Memory::read from addr upwards
MemDump(addr, len) ==
    /\ ctl = "idle"
    /\ ncalls < MaxCalls
    /\ ret' = [dump |-> [i \in 1 .. len |-> MemRead(mem, addr + i - 1)]]
               @@ Ret("mem", addr, 0, 0, Cpu)
    /\ ncalls' = ncalls + 1
    /\ UNCHANGED <<cpuvars, ctl, job, attachedAt>>

\* every opcode byte, followed by one operand byte
OpcodePrograms == {<<op, b>> : op \in 0 .. 255, b \in {0, 254}}

\* the first two instructions of the test program
FourBytes == SubSeq(TestProgram, 1, 4)

\* load addresses: inside memory, two bytes before its end, and the same
\* one size of the memory further
RawAddrs == {0, 254, 510}

\* the address and value of memory.rs tests::mem_read_write, and the same
\* address one size of the memory further
WriteAddrs == {16, 272}

WriteVal == 170

\* <<addr, len>> of the mem command
DumpArgs == {<<254, 4>>, <<510, 4>>, <<16, 1>>, <<272, 1>>}

InitRaw ==
    /\ regs = [i \in 0 .. 3 |-> i + 1]
    /\ z \in BOOLEAN
    /\ mem = PatternMem
    /\ pc = 0 /\ cycles = 0 /\ halted = FALSE /\ devices = <<>>
    /\ out = <<>> /\ nexec = 0 /\ lastop = -1 /\ notif = <<>>
    /\ attachedAt = <<>>
    /\ ctl = "idle"
    /\ ret = Ret("new", 0, 0, 0, Cpu)
    /\ job = NoJob
    /\ ncalls = 0

\* one load of raw bytes, then one step (further steps once halted), or
\* writes and dumps of memory
NextRaw ==
    \/ job.kind = "none"
       /\ \E program \in OpcodePrograms \cup {FourBytes}, addr \in RawAddrs :
              LoadBytes(program, addr)
    \/ (ret.op = "load" \/ halted) /\ StepInstruction
    \/ (ret.op = "load" \/ halted) /\ StepAndTick
    \/ ret.op = "load" /\ \E addr \in WriteAddrs : MemWriteCall(addr, WriteVal)
    \/ ret.op \in {"load", "write"} /\ \E d \in DumpArgs : MemDump(d[1], d[2])

SpecRaw == InitRaw /\ [][NextRaw]_vars

\* ---- loads at any address, between steps and runs
\* the HLT that ends the test program, as a program of its own
HltBytes == SubSeq(TestProgram, 8, 8)

LoadPrograms == {TestProgram, HltBytes}

NextLoad ==
    \/ \E period \in Periods : AttachDevice(period)
    \/ \E program \in LoadPrograms, addr \in RawAddrs : LoadBytes(program, addr)
    \/ StepInstruction
    \/ StepAndTick
    \/ \E n \in StepCounts : StepN(n)
    \/ RunCall
    \/ RunIter
    \/ RunReturn

SpecLoad == Init /\ [][NextLoad]_vars

\* ---- run to completion: a thread inside CPU::run keeps executing its loop
NextRun ==
    \/ \E period \in Periods : AttachDevice(period)
    \/ \E src \in Sources : AsmLoad(src, 0)
    \/ StepAndTick
    \/ RunCall
    \/ RunIter
    \/ RunReturn

\* RunIter can be taken; taking it always changes ret
RunIterEnabled == ctl = "run" /\ ~halted /\ cycles < MaxCycles

\* weak fairness of RunIter, WF_vars(RunIter), written out with its enabling
\* condition: the thread inside run does not stop between two iterations
RunIterFair == []<>(~RunIterEnabled) \/ []<><<RunIter>>_vars

SpecRun == Init /\ [][NextRun]_vars /\ RunIterFair /\ WF_vars(RunReturn)

\* ------------------------------------------------------------------ claims
\* the latest call was a single step, and it executed the first instruction
\* of the bytes the latest load put at job.addr
SteppedFirst ==
    /\ ret.op \in {"step_instruction", "step_and_tick_instruction"}
    /\ job.kind = "asm" /\ job.asm.ok
    /\ ret.pre.nexec = job.nexec0
    /\ nexec = job.nexec0 + 1

\* the latest load was of a one-instruction source, and a single step executed it
SteppedOne == SteppedFirst /\ Len(job.src) = 1

\* the instruction of a one-line source
TheIns == job.src[1]

\* the load address as a memory address
LoadedAt == job.addr % MemSize

\* the registers, zero flag, memory, program counter, console and halted flag
\* that section 4.1 of the specification gives the instruction ln, stepped at
\* address a in CPU state p
IsaEffect(ln, a, p) ==
    LET mn == ln.name
        o1 == IF Len(ln.ops) >= 1 THEN ln.ops[1].v ELSE 0
        o2 == IF Len(ln.ops) >= 2 THEN ln.ops[2].v ELSE 0
        next1 == (a + 1) % MemSize
        next2 == (a + 2) % MemSize
        same == [regs |-> p.regs, z |-> p.z, mem |-> p.mem, pc |-> next1,
                 out |-> p.out, halted |-> p.halted]
        setreg(v) == [same EXCEPT !.regs[o1] = v, !.z = (v = 0), !.pc = next2]
    IN  CASE mn = "LDI" -> setreg(o2)
          [] mn = "ADD" -> setreg((p.regs[o1] + p.regs[o2]) % 256)
          [] mn = "SUB" -> setreg((p.regs[o1] - p.regs[o2] + 256) % 256)
          [] mn = "LOAD" -> setreg(p.mem[o2])
          [] mn = "STORE" -> [same EXCEPT !.mem[o2] = p.regs[o1], !.pc = next2]
          [] mn = "JMP" -> [same EXCEPT !.pc = o1]
          [] mn = "JZ" -> [same EXCEPT !.pc = IF p.regs[o1] = 0 THEN o2 ELSE next2]
          [] mn = "OUT" -> [same EXCEPT !.out = Append(p.out, p.regs[o1])]
          [] mn = "HLT" -> [same EXCEPT !.halted = TRUE]
          [] OTHER -> same

\* C1: for every mnemonic, registers in 0..3 and operands in 0..255, and every
\* initial register/flag/memory state, assembling the instruction, loading it
\* and executing one step produces exactly the effect of section 4.1 on
\* registers, zero flag, memory and program counter, and nothing else.
C1_StepMatchesIsa ==
    SteppedOne =>
        LET e == IsaEffect(TheIns, LoadedAt, ret.pre)
        IN  /\ regs = e.regs /\ z = e.z /\ mem = e.mem /\ pc = e.pc
            /\ out = e.out /\ halted = e.halted

\* C2: an assembled instruction that takes no jump advances the program
\* counter by exactly the size pass 1 assigned to its mnemonic, so the next
\* step starts on an instruction boundary.
C2_SizeAgreement ==
    (/\ SteppedOne
     /\ TheIns.name # "JMP"
     /\ TheIns.name = "JZ" => ret.pre.regs[TheIns.ops[1].v] # 0)
    => pc = (LoadedAt + instruction_size(TheIns.name).v) % MemSize

\* C3: after SUB Rd, Rs is assembled, loaded and stepped, register d holds
\* (old Rd - old Rs) mod 256, the other registers and memory are unchanged and
\* the zero flag is true iff the new Rd is 0.
C3_Sub ==
    (SteppedOne /\ TheIns.name = "SUB") =>
        LET d == TheIns.ops[1].v
            s == TheIns.ops[2].v
        IN  /\ regs[d] = (ret.pre.regs[d] - ret.pre.regs[s] + 256) % 256
            /\ \A i \in 0 .. 3 : i # d => regs[i] = ret.pre.regs[i]
            /\ mem = ret.pre.mem
            /\ z = (regs[d] = 0)

\* C4: after STORE Rs, addr is assembled, loaded and stepped, memory[addr] is
\* the value register s had before the step, every other byte is unchanged and
\* no register changes.
C4_Store ==
    (SteppedOne /\ TheIns.name = "STORE") =>
        LET s == TheIns.ops[1].v
            a == TheIns.ops[2].v
        IN  /\ mem[a] = ret.pre.regs[s]
            /\ \A b \in Addrs : b # a => mem[b] = ret.pre.mem[b]
            /\ regs = ret.pre.regs

\* C5: after JZ Rn, addr is assembled, loaded at A and stepped, the program
\* counter is addr when register n holds 0 (whatever the zero flag) and
\* (A + 2) mod 256 otherwise; registers, zero flag and memory are unchanged.
C5_Jz ==
    (SteppedOne /\ TheIns.name = "JZ") =>
        LET n == TheIns.ops[1].v
            a == TheIns.ops[2].v
        IN  /\ pc = IF ret.pre.regs[n] = 0 THEN a ELSE (LoadedAt + 2) % MemSize
            /\ regs = ret.pre.regs /\ z = ret.pre.z /\ mem = ret.pre.mem

\* the instruction lines of a source, in source order
InstrLines(src) == SelectSeq(src, LAMBDA ln : ln.kind = "instr")

\* mnemonics whose opcode packs a register index
RegFamily == {"LDI", "ADD", "SUB", "LOAD", "STORE", "JZ", "OUT"}

RECURSIVE EncodedAsClaimed(_, _, _, _)
\* bytes, from offset off on, are the encodings of lines k.. as C7 describes
\* them: opcode with the first operand's register index in its low 2 bits (or
\* the fixed byte of JMP, HLT, NOP), then the operand byte of a 2-byte
\* instruction when the operand is written as a number or a register
EncodedAsClaimed(lines, bytes, k, off) ==
    IF k > Len(lines) THEN off = Len(bytes)
    ELSE
      LET ln == lines[k]
          size == instruction_size(ln.name).v
          arg == ln.ops[Len(ln.ops)]
      IN  /\ off + size <= Len(bytes)
          /\ ln.name \in RegFamily => bytes[off + 1] % 4 = ln.ops[1].v
          /\ ln.name = "JMP" => bytes[off + 1] = 64
          /\ ln.name = "HLT" => bytes[off + 1] = 255
          /\ ln.name = "NOP" => bytes[off + 1] = 0
          /\ (size = 2 /\ arg.t \in {"reg", "num", "hex"}) => bytes[off + 2] = arg.v
          /\ EncodedAsClaimed(lines, bytes, k + 1, off + size)

\* C7: for each instruction line in source order the assembler emits the
\* opcode byte (family base with the register index in the low 2 bits, or the
\* fixed byte of JMP/HLT/NOP) and then the operand byte of a 2-byte
\* instruction, and nothing for labels, comments and blank lines; the example
\* source assembles to 10 05 11 0A 20 01 50 FF.
C7_Encoding ==
    (job.kind = "asm" /\ job.asm.ok) =>
        /\ EncodedAsClaimed(InstrLines(job.src), job.asm.bytes, 1, 0)
        /\ job.src = ExampleSrc => job.asm.bytes = TestProgram

\* a run that was called right after the latest load, on a CPU that had
\* executed nothing since its construction, has returned
FreshRunReturned ==
    /\ ret.op = "run_returned"
    /\ job.kind # "none" /\ job.addr = 0
    /\ ret.pre.pc = 0 /\ ret.pre.nexec = 0 /\ ret.pre.cycles = 0 /\ ~ret.pre.halted

\* C6: when run returns the CPU is halted and the cycle counter has grown by
\* the sum of the cycle costs of the instructions run executed; the program
\* LDI R0,5; LDI R1,10; ADD R0,R1; OUT R0; HLT loaded at 0 on a fresh CPU ends
\* with register 0 = 15, zero flag false, cycles = 12 and halted; LDI followed
\* by HLT consumes exactly 3 cycles.
C6_RunCycles ==
    /\ ret.op = "run_returned" =>
          /\ halted
          /\ cycles = ret.pre.cycles + ret.cycles
    /\ (FreshRunReturned /\ job.bytes = TestProgram) =>
          /\ regs[0] = 15 /\ ~z /\ cycles = 12 /\ halted
          /\ out = <<15>>
    /\ (FreshRunReturned /\ job.src = LdiHltSrc) =>
          /\ cycles = 3 /\ ret.executed = 2 /\ halted

\* C6 witness: the test program has been run to completion on a fresh CPU
C6_Witness == FreshRunReturned /\ job.bytes = TestProgram /\ cycles = 12

\* calls that execute instructions
SteppingCalls ==
    {"step_instruction", "step_and_tick_instruction", "step_n_instructions",
     "run", "run_returned"}

\* C8: halted becomes true only by executing the halt opcode, and once it is
\* true every step, step-N and run (no load or attach in between) returns zero
\* cycles and zero executed instructions and leaves halted, pc, registers,
\* zero flag, memory, cycle counter and console unchanged, with no device
\* callback.
C8_HaltedAbsorbing ==
    [][ /\ (~halted /\ halted') => (lastop' = 255 /\ nexec' > nexec)
        /\ (halted /\ ret'.op \in SteppingCalls) =>
              /\ halted'
              /\ UNCHANGED <<pc, regs, z, mem, cycles, out, devices, notif, nexec>>
        /\ (ret'.op \in SteppingCalls /\ ret'.pre.halted) =>
              (ret'.cycles = 0 /\ ret'.executed = 0) ]_vars

\* C8 witness: step-N was called with n > 0 on a halted CPU with a device
C8_Witness ==
    /\ ret.op = "step_n_instructions" /\ ret.n = MaxN
    /\ ret.pre.halted /\ halted
    /\ Len(devices) > 0

\* the cycle values device i was ticked with, in order
Seen(i) ==
    LET mine == SelectSeq(notif, LAMBDA e : e[1] = i)
    IN  [k \in 1 .. Len(mine) |-> mine[k][2]]

RECURSIVE NotifUpTo(_)
\* the tick calls of cycles 1..c: at each cycle, the devices attached before
\* it, in attachment order
NotifUpTo(c) ==
    IF c = 0 THEN <<>>
    ELSE NotifUpTo(c - 1)
         \o SelectSeq([i \in 1 .. Len(devices) |-> <<i, c>>],
                      LAMBDA e : attachedAt[e[1]] < c)

\* C9 as stated: every device observes exactly the values 1, 2, 3, ...
C9_SeenFromOne ==
    \A i \in 1 .. Len(devices) : \A k \in 1 .. Len(Seen(i)) : Seen(i)[k] = k

\* C9, amended: an instruction of cost C executed by step-with-tick, step-N
\* or run raises the cycle counter by 1, C times, and after each increment
\* every attached device is ticked once, in attachment order, with the new
\* counter value; so a device attached when the counter was a observes exactly
\* a+1, a+2, ... up to the current counter, and the counter never decreases.
C9_TickPerCycle ==
    /\ [](/\ notif = NotifUpTo(cycles)
          /\ \A i \in 1 .. Len(devices) :
                Seen(i) = [k \in 1 .. (cycles - attachedAt[i]) |-> attachedAt[i] + k])
    /\ [][ /\ cycles' >= cycles
           /\ ret'.op \in {"step_and_tick_instruction", "step_n_instructions"}
                 => cycles' = cycles + ret'.cycles
           /\ (ctl = "run" /\ ctl' = "run")
                 => cycles' - cycles = ret'.cycles - ret.cycles ]_vars

\* C9 witness: two devices attached at different times have both been ticked
C9_Witness ==
    /\ Len(devices) = 2
    /\ attachedAt[1] < attachedAt[2]
    /\ cycles > attachedAt[2] + 1

\* C10: step_n_instructions(n) returns (executed, cycles) with executed <= n
\* the number of instructions executed, it stops right after the instruction
\* that halts (which is counted), cycles is the growth of the cycle counter,
\* and the result is (0, 0) when the CPU is already halted or n = 0.
C10_StepN ==
    ret.op = "step_n_instructions" =>
        /\ ret.executed <= ret.n
        /\ ret.executed = nexec - ret.pre.nexec
        /\ ret.cycles = cycles - ret.pre.cycles
        /\ (ret.pre.halted \/ ret.n = 0) => (ret.executed = 0 /\ ret.cycles = 0)
        /\ ret.executed < ret.n => halted
        /\ (halted /\ ~ret.pre.halted) => (ret.executed >= 1 /\ lastop = 255)

\* C10 witness: step-N stopped early at a halt instruction
C10_Witness ==
    /\ ret.op = "step_n_instructions"
    /\ ~ret.pre.halted /\ halted
    /\ 1 < ret.executed /\ ret.executed < ret.n

\* run has returned, it was called when no cycle had elapsed, and device i is
\* a timer of period 5 attached when no cycle had elapsed
TimerWatchedRun(i) ==
    /\ ret.op = "run_returned" /\ ret.pre.cycles = 0 /\ ~ret.pre.halted
    /\ i \in 1 .. Len(devices)
    /\ devices[i].period = 5 /\ attachedAt[i] = 0

\* C11: with a timer of period 5 attached to a fresh CPU, running a halting
\* program of total cost 5..9 makes the timer fire exactly once, on the tick
\* carrying cycle 5, and a program of total cost below 5 makes it fire zero
\* times.
C11_TimerFiresOnce ==
    \A i \in 1 .. MaxDevices :
        TimerWatchedRun(i) =>
            /\ (5 <= ret.cycles /\ ret.cycles <= 9) => devices[i].fired = <<5>>
            /\ ret.cycles < 5 => devices[i].fired = <<>>

\* C11 witness: a program of cost 7 has been run with the timer attached
C11_Witness == TimerWatchedRun(1) /\ ret.cycles = 7 /\ halted

\* the size section 4.1 gives a mnemonic
IsaSize(mn) == IF mn \in {"OUT", "HLT", "NOP"} THEN 1 ELSE 2

RECURSIVE PcBefore(_, _)
\* the layout of section 4.2: the program counter in front of line i is the
\* latest ORG operand plus the sizes of the instructions since it
PcBefore(src, i) ==
    IF i = 1 THEN 0
    ELSE LET ln == src[i - 1]
         IN  CASE ln.kind = "org" -> ln.ops[1].v
               [] ln.kind = "instr" -> PcBefore(src, i - 1) + IsaSize(ln.name)
               [] OTHER -> PcBefore(src, i - 1)

RECURSIVE BytesBefore(_, _)
\* bytes emitted for the lines in front of line i: ORG, labels and blank
\* lines emit nothing
BytesBefore(src, i) ==
    IF i = 1 THEN 0
    ELSE BytesBefore(src, i - 1)
         + (IF src[i - 1].kind = "instr" THEN IsaSize(src[i - 1].name) ELSE 0)

\* the line that declares label name
DeclLine(src, name) == CHOOSE i \in 1 .. Len(src) : src[i] = Label(name)

\* line i is an instruction whose address operand is a label
RefersToLabel(src, i) ==
    /\ src[i].kind = "instr"
    /\ Len(src[i].ops) >= 1
    /\ src[i].ops[Len(src[i].ops)].t = "lab"

\* C12: an address operand naming a label is encoded as the program counter
\* pass 1 recorded for the label (the latest ORG value plus the sizes of the
\* instructions since it, as one byte), the same whether the label is declared
\* before or after the reference; ORG emits no bytes and no padding, and
\* ORG 0x10, loop:, LDI R0,1, JMP loop gives exactly 4 bytes ending in 0x10.
C12_LabelResolution ==
    (job.kind = "asm" /\ job.asm.ok) =>
        /\ Len(job.asm.bytes) = BytesBefore(job.src, Len(job.src) + 1)
        /\ \A i \in 1 .. Len(job.src) :
              RefersToLabel(job.src, i) =>
                  job.asm.bytes[BytesBefore(job.src, i) + 2]
                      = PcBefore(job.src, DeclLine(job.src, job.src[i].ops[Len(job.src[i].ops)].name)) % 256
        /\ job.src = OrgLoopSrc => job.asm.bytes = <<16, 1, 64, 16>>

\* C12 witness: a forward reference behind an ORG has been assembled
C12_Witness ==
    /\ job.src = << Org(<<Hex(16)>>), Ins("JMP", <<Lab("end")>>),
                    Ins("LDI", <<R(0), Num(1)>>), Label("end") >>
    /\ job.asm.ok
    /\ job.asm.bytes = <<64, 20, 16, 1>>

\* line ln is an instruction with a register index above 3 or a decimal
\* literal above 255
BadOperandLine(ln) ==
    /\ ln.kind = "instr"
    /\ \E k \in 1 .. Len(ln.ops) :
          \/ ln.ops[k].t = "reg" /\ ln.ops[k].v > 3
          \/ ln.ops[k].t = "num" /\ ln.ops[k].v > 255

\* C13: when an instruction line holds an invalid register index or an
\* out-of-range literal, assemble fails, the line number it reports is the
\* 1-based position of that line in the source text (blank, comment, label
\* and ORG lines counted), and no bytes are returned.
C13_ErrorLine ==
    (/\ job.kind = "asm"
     /\ ~job.asm.ok
     /\ job.asm.msg \in {"invalid register", "number out of range"}
     /\ \E i \in 1 .. Len(job.src) : BadOperandLine(job.src[i]))
    => /\ job.asm.line \in 1 .. Len(job.src)
       /\ BadOperandLine(job.src[job.asm.line])
       /\ \A i \in 1 .. (job.asm.line - 1) : ~BadOperandLine(job.src[i])
       /\ job.asm.bytes = <<>>

\* the number of operands of a mnemonic's shape
ShapeCount(mn) ==
    IF mn \in {"HLT", "NOP"} THEN 0 ELSE IF mn \in {"OUT", "JMP"} THEN 1 ELSE 2

\* C14: a line whose number of comma-separated operands differs from its
\* mnemonic's shape (0 for HLT/NOP, 1 for OUT/JMP, 2 for the others) is
\* rejected and produces no bytes, extra operands after HLT or NOP and empty
\* operand slots such as LDI R0,,5 included.
C14_OperandCount ==
    (/\ job.kind = "asm"
     /\ Len(job.src) = 1
     /\ job.src[1].kind = "instr"
     /\ Len(job.src[1].ops) # ShapeCount(job.src[1].name))
    => (~job.asm.ok /\ job.asm.bytes = <<>>)

\* C18: the opcode byte is an injective function of (mnemonic, register):
\* two instructions of one source have the same opcode byte only when they
\* have the same mnemonic and, in a register family, the same register.
C18_OpcodesInjective ==
    (/\ job.kind = "asm" /\ job.asm.ok
     /\ Len(job.src) = 2
     /\ job.src[1] \in OpLines /\ job.src[2] \in OpLines
     /\ job.asm.bytes[1] = job.asm.bytes[IsaSize(job.src[1].name) + 1])
    => /\ job.src[1].name = job.src[2].name
       /\ job.src[1].name \in RegFamily => job.src[1].ops[1].v = job.src[2].ops[1].v

\* address a receives byte k of a bulk write of bytes at addr
WrittenAt(addr, bytes, a) == {k \in 1 .. Len(bytes) : (addr + k - 1) % MemSize = a}

\* C15: every read, write and bulk write addresses memory modulo 256: a bulk
\* write stores byte k at address (addr + k - 1) mod 256 and changes no other
\* byte (4 bytes at 254 land on 254, 255, 0, 1 in that order), a write at
\* addr changes exactly the byte at addr mod 256, and a read at a + 256
\* returns the byte a read at a returns.
C15_MemoryWraps ==
    /\ ret.op = "load" =>
          \A a \in Addrs :
              mem[a] = IF WrittenAt(job.addr, job.bytes, a) = {} THEN ret.pre.mem[a]
                       ELSE job.bytes[CHOOSE k \in WrittenAt(job.addr, job.bytes, a) : TRUE]
    /\ (ret.op = "load" /\ job.bytes = FourBytes /\ job.addr = 254) =>
          <<mem[254], mem[255], mem[0], mem[1]>> = FourBytes
    /\ ret.op = "write" =>
          mem = [ret.pre.mem EXCEPT ![ret.n % MemSize] = ret.val]
    /\ ret.op = "mem" =>
          /\ mem = ret.pre.mem
          /\ \A i \in 1 .. Len(ret.dump) : ret.dump[i] = mem[(ret.n + i - 1) % MemSize]
    /\ \A a \in Addrs : MemRead(mem, a + MemSize) = MemRead(mem, a)

\* C15 witness: 4 bytes were written at 254 and read back from 254 + 256
C15_Witness ==
    /\ job.kind = "raw" /\ job.bytes = FourBytes /\ job.addr = 254
    /\ ret.op = "mem" /\ ret.n = 510
    /\ ret.dump = FourBytes
    /\ mem[0] = 17 /\ mem[1] = 10 /\ mem[2] = PatternMem[2]

\* the first step after a load of raw bytes has executed their first byte
RawStepped ==
    /\ ret.op \in {"step_instruction", "step_and_tick_instruction"}
    /\ job.kind = "raw"
    /\ ret.pre.nexec = job.nexec0
    /\ nexec = job.nexec0 + 1

\* the step cost 1 cycle, moved the program counter by 1, did not halt and
\* left registers, zero flag and memory alone
DidNothing ==
    /\ ret.cycles = 1
    /\ pc = (ret.pre.pc + 1) % MemSize
    /\ ~halted
    /\ regs = ret.pre.regs /\ z = ret.pre.z /\ mem = ret.pre.mem

\* the opcode bytes the assembler emits
AsmOpcodes ==
    {BitOr(base, r) : base \in {16, 32, 33, 48, 49, 65, 80}, r \in 0 .. 3} \cup {64, 255, 0}

\* the opcode bytes an arm of the CPU's match recognizes
DecodedOpcodes == {op \in 0 .. 255 : BitAnd(op, 240) \in {16, 32, 48, 80}} \cup {64, 255}

C17_ZeroFlagFrame ==
    SteppedOne =>
        IF TheIns.name \in {"STORE", "JMP", "JZ", "OUT", "HLT", "NOP"}
        THEN z = ret.pre.z
        ELSE z = (regs[TheIns.ops[1].v] = 0)

\* the cycle cost section 4.1 gives a mnemonic other than LOAD and STORE
IsaCost(mn) ==
    CASE mn = "LDI" -> 2
      [] mn \in {"ADD", "SUB", "JMP", "JZ"} -> 3
      [] mn = "OUT" -> 4
      [] OTHER -> 1

\* C19: a single step of each assembled instruction returns LDI 2, ADD 3,
\* SUB 3, JMP 3, JZ 3 (taken or not), OUT 4, HLT 1, NOP 1, whatever the
\* operands and the machine state.
C19_FixedCosts ==
    (SteppedOne /\ TheIns.name \notin {"LOAD", "STORE"}) =>
        ret.cycles = IsaCost(TheIns.name)

\* C20 as stated: a step that executes an assembled LOAD or STORE returns 3.
C20_CostThree ==
    (SteppedOne /\ TheIns.name \in {"LOAD", "STORE"}) => ret.cycles = 3

\* C20 amended: a step that executes an assembled LOAD or STORE returns 4.
C20_CostFour ==
    (SteppedOne /\ TheIns.name \in {"LOAD", "STORE"}) => ret.cycles = 4

\* C20 witness: an assembled STORE was stepped and the step returned 4
C20_Witness ==
    /\ SteppedOne /\ TheIns.name = "STORE"
    /\ ret.op = "step_and_tick_instruction"
    /\ ret.cycles = 4 /\ cycles = ret.pre.cycles + 4

C22_PcInRange == pc \in 0 .. 255

\* C23: load(bytes, addr) changes only the memory bytes it writes (with
\* wraparound) and the program counter; registers, zero flag, cycle counter,
\* attached devices and the halted flag stay as they were, so after a load
\* into a halted CPU step, step-N and run execute nothing.
C23_LoadFrame ==
    /\ (ret.op = "load" /\ job.kind = "raw") =>
          /\ regs = ret.pre.regs /\ z = ret.pre.z /\ cycles = ret.pre.cycles
          /\ devices = ret.pre.devices /\ halted = ret.pre.halted
          /\ out = ret.pre.out /\ nexec = ret.pre.nexec
          /\ pc = job.addr
          /\ \A a \in Addrs :
                WrittenAt(job.addr, job.bytes, a) = {} => mem[a] = ret.pre.mem[a]
          /\ \A k \in 1 .. Len(job.bytes) : mem[(job.addr + k - 1) % MemSize] = job.bytes[k]
    /\ (/\ ret.op \in {"step_instruction", "step_and_tick_instruction",
                       "step_n_instructions", "run_returned"}
        /\ job.kind = "raw"
        /\ ret.pre.halted /\ ret.pre.nexec = job.nexec0) =>
          /\ ret.executed = 0 /\ ret.cycles = 0
          /\ IsCpu(ret.pre)

\* C23 witness: the test program was loaded at 254 into a CPU that had halted,
\* and a run after it returned at once
C23_Witness ==
    /\ ret.op = "run_returned" /\ ret.pre.halted
    /\ job.bytes = TestProgram /\ job.addr = 254 /\ job.nexec0 = nexec
    /\ nexec > 0 /\ Len(devices) > 0
    /\ pc = 254 /\ mem[254] = 16 /\ mem[1] = 10 /\ halted

RECURSIVE ReachesHlt(_)
\* repeating the body of run from CPU state c executes a HLT before the cycle
\* counter reaches MaxCycles
ReachesHlt(c) ==
    IF c.halted THEN TRUE
    ELSE IF c.cycles >= MaxCycles THEN FALSE
    ELSE ReachesHlt(RunBody(c).c)

\* the CPU is about to execute a JMP to its own address
Spinning ==
    /\ ~halted
    /\ MemRead(mem, pc) = 64
    /\ MemRead(mem, pc + 1) = pc % MemSize

\* C24: run returns only with halted = true; for a program whose execution
\* reaches HLT run eventually returns with halted = true; for a JMP to its own
\* address run never returns, halted stays false and the cycle counter grows
\* up to every bound put on it.
C24_RunTermination ==
    /\ [](ret.op = "run_returned" => halted)
    /\ (ctl = "run" /\ ReachesHlt(Cpu)) ~> (ctl = "idle" /\ ret.op = "run_returned" /\ halted)
    /\ [][(ctl = "run" /\ Spinning) => (ctl' = "run" /\ Spinning' /\ cycles' > cycles)]_vars
    /\ (ctl = "run" /\ Spinning) ~> (ctl = "run" /\ ~halted /\ cycles >= MaxCycles)

\* C24 witness: run is inside its loop on a JMP to its own address and the
\* cycle counter has reached the bound
C24_Witness ==
    /\ ctl = "run" /\ Spinning
    /\ job.src = SpinSrc /\ ret.executed >= 4
    /\ cycles >= MaxCycles
====
